---- MODULE Spec2Model ----
(***************************************************************************)
(* Session / authentication core of the Rusdi Barber dashboard:            *)
(*   - AuthService (src/src/services/authService.ts): in-memory user and   *)
(*     token, localStorage / sessionStorage credential store;              *)
(*   - AuthProvider (src/src/hooks/useAuth.tsx): the React auth context;   *)
(*   - list screens (BookingManagement.tsx, pelanggan.tsx): page / filter  *)
(*     state and their fetches.                                            *)
(* Every asynchronous function is cut at its awaits: one action issues the *)
(* request (the synchronous prefix of the function), one action resolves   *)
(* it (the continuation that runs when the HTTP response arrives).         *)
(***************************************************************************)
EXTENDS Integers, Sequences, FiniteSets, Bags, TLC

\* ------------------------------------------------------------------ bounds
\* number of requests that may be awaiting their response at the same time
MaxInflight == 2
\* number of list requests a screen issues before the model stops it
MaxRequests == 4
\* number of bookings the backend holds
NumItems == 5
\* pagination.limit, scaled down from the screen's 10
PageLimit == 2
\* number of deletes the customers screen issues before the model stops it
MaxDeletes == 2
\* latest time (in seconds) a token's exp or the clock takes
MaxTime == 3
\* largest total a payments response reports
MaxTotal == 4
\* largest limit a payments response reports
MaxLimit == 3

\* ------------------------------------------------------------ value domain
Null == "<null>"
Undefined == "<undefined>"

Users == {"u1", "u2"}
Tokens == {"t1", "t2"}
RefreshTokens == {"r1", "r2"}

\* JavaScript truthiness of the values the model holds
Truthy(v) == v \notin {Null, Undefined, ""}

\* a || b
OrElse(a, b) == IF Truthy(a) THEN a ELSE b

\* what Login.handleMockLogin stores in place of a backend session
MockToken == "mock-jwt-token-demo-mode"
MockRefreshToken == "mock-refresh-token"
DemoUsers == {"demoAdmin", "demoManager"}

\* JSON.stringify(user), as coerced to a string by Storage.setItem:
\* JSON.stringify(undefined) is undefined, which setItem stores as the
\* text "undefined".
JSON_stringify(u) == IF u = Undefined THEN "undefined" ELSE "{" \o u \o "}"

\* JSON.parse(text) returns a value exactly for the texts JSON.stringify
\* produces from a user record; on any other text it throws.
JSON_parses(s) == \E u \in Users \cup DemoUsers : JSON_stringify(u) = s
JSON_parse(s) == CHOOSE u \in Users \cup DemoUsers : JSON_stringify(u) = s

\* what POST /auth/login can answer with success = true and data present
LoginResponses ==
  { [user |-> u, token |-> "t1", refreshToken |-> "r1"] : u \in {"u1", Undefined} }
  \cup { [user |-> "u2", token |-> "t2", refreshToken |-> "r2"] }

\* failure reasons as normalised by handleApiError
AuthFailure == "401 unauthorized"
NetFailure == "Network Error"
FailReasons == {AuthFailure, NetFailure}

EmptyLocal == [authToken |-> Null, refreshToken |-> Null, user |-> Null]
EmptySession == [authToken |-> Null, refreshToken |-> Null]

NoCall == [op |-> "none", via |-> "none", remember |-> FALSE, rtFrom |-> "none", stale |-> FALSE]
NoEvent == [kind |-> "none", call |-> NoCall, out |-> "none", threw |-> FALSE, boot |-> "none"]

VARIABLES
  authToken,       \* AuthService.authToken
  currentUser,     \* AuthService.currentUser
  localStorage,    \* durable storage: authToken, refreshToken, user
  sessionStorage,  \* session-scoped storage: authToken, refreshToken
  user,            \* AuthProvider state: user
  token,           \* AuthProvider state: token
  isLoading,       \* AuthProvider state: isLoading
  error,           \* AuthProvider state: error
  calls,           \* bag of the requests awaiting their response
  ev,              \* the step taken last
  bookings,        \* BookingManagement state: bookings (ids, in list order)
  pagination,      \* BookingManagement state: page, limit, total, totalPages
  filters,         \* BookingManagement state: filters (status, search)
  loading,         \* BookingManagement state: loading
  bookingsError,   \* BookingManagement state: error
  requests,        \* bag of the getBookings requests awaiting their response
  reqSeq,          \* number of getBookings requests issued so far
  shownSeq,        \* which request's response the displayed list comes from
  route,           \* the URL the router shows: "/login" or "/dashboard"
  formData,        \* Login state: formData (email, password, remember)
  connectionStatus,\* Login state: connectionStatus (isConnected, checking)
  loginLoading,    \* Login state: loading
  errors,          \* Login state: errors (what the form shows)
  submitted,       \* the running handleSubmit: its closure and where it awaits
  customers,       \* Pelanggan state: customers (ids, in list order)
  page,            \* Pelanggan state: page
  totalPages,      \* Pelanggan state: totalPages
  searchTerm,      \* Pelanggan state: searchTerm
  customersLoading,\* Pelanggan state: loading
  customersError,  \* Pelanggan state: error
  fetches,         \* bag of the getCustomers requests awaiting their response
  fetchSeq,        \* number of getCustomers requests issued so far
  deletions,       \* bag of the deleteCustomer requests awaiting their response
  deleteCount,     \* number of deleteCustomer requests issued so far
  serverCustomers, \* the customers the backend holds
  customersStep,   \* the Pelanggan step taken last
  tokenCheck,      \* the isTokenExpired call made last: its inputs and result
  permCheck,       \* the permission predicate evaluated last: its input and result
  serviceUser,     \* the auth context's user as ServiceManagement sees it
  serviceError,    \* ServiceManagement state: error
  serviceCalls,    \* bag of the serviceService requests awaiting their response
  serviceStep,     \* the ServiceManagement step taken last
  pembayaran,      \* Pembayaran state: payments, loading, error, page, totalPages, filters
  paymentFetches,  \* bag of the getPayments requests awaiting their response
  paymentsStep     \* the Pembayaran step taken last, with the response it handled

authVars == <<authToken, currentUser, localStorage, sessionStorage, user, token,
              isLoading, error, calls, ev>>
listVars == <<bookings, pagination, filters, loading, bookingsError, requests,
              reqSeq, shownSeq>>
pageVars == <<route, formData, connectionStatus, loginLoading, errors, submitted>>
customersVars == <<customers, page, totalPages, searchTerm, customersLoading,
                   customersError, fetches, fetchSeq, deletions, deleteCount,
                   serverCustomers, customersStep>>
serviceVars == <<serviceUser, serviceError, serviceCalls, serviceStep>>
paymentVars == <<pembayaran, paymentFetches, paymentsStep>>
vars == <<authVars, listVars, pageVars, customersVars, tokenCheck, permCheck,
          serviceVars, paymentVars>>

\* what the steps of one part of the application leave alone
offSession == <<listVars, pageVars, customersVars, tokenCheck, permCheck, serviceVars, paymentVars>>
offList == <<authVars, pageVars, customersVars, tokenCheck, permCheck, serviceVars, paymentVars>>
offPage == <<listVars, customersVars, tokenCheck, permCheck, serviceVars, paymentVars>>
offCustomers == <<authVars, listVars, pageVars, tokenCheck, permCheck, serviceVars, paymentVars>>
offToken == <<authVars, listVars, pageVars, customersVars, permCheck, serviceVars, paymentVars>>
offPerm == <<authVars, listVars, pageVars, customersVars, tokenCheck, serviceVars, paymentVars>>
offService == <<authVars, listVars, pageVars, customersVars, tokenCheck, permCheck,
               paymentVars>>
offPayments == <<authVars, listVars, pageVars, customersVars, tokenCheck, permCheck,
                serviceVars>>

svcVars == <<authToken, currentUser, localStorage, sessionStorage>>
ctxVars == <<user, token, isLoading, error>>

\* --------------------------------------------------------------- AuthService
\* (mutation of IsAuthenticatedOf: the user is not looked at)
IsAuthenticatedOf_tokenOnly(tok, usr) == Truthy(tok)

\* AuthService.isAuthenticated on given field values
IsAuthenticatedOf(tok, usr) == Truthy(tok) /\ Truthy(usr)

isAuthenticated == IsAuthenticatedOf(authToken, currentUser)

\* the value AuthProvider exposes as isAuthenticated: !!user && !!token
ContextIsAuthenticatedOf(usr, tok) == Truthy(usr) /\ Truthy(tok)

contextIsAuthenticated == ContextIsAuthenticatedOf(user, token)

\* (mutation of clearAuth: sessionStorage is left alone)
clearAuth_keepsSessionStorage ==
  /\ authToken' = Null
  /\ currentUser' = Null
  /\ localStorage' = EmptyLocal
  /\ sessionStorage' = sessionStorage

\* AuthService.clearAuth
clearAuth ==
  /\ authToken' = Null
  /\ currentUser' = Null
  /\ localStorage' = EmptyLocal
  /\ sessionStorage' = EmptySession

\* AuthService.initializeAuth, run by the constructor over the store (l, s)
initializeAuth(l, s) ==
  LET tok == OrElse(l.authToken, s.authToken)
      usr == l.user
  IN IF Truthy(tok) /\ Truthy(usr)
       THEN IF JSON_parses(usr)
              THEN /\ authToken' = tok
                   /\ currentUser' = JSON_parse(usr)
                   /\ localStorage' = l
                   /\ sessionStorage' = s
              ELSE clearAuth
       ELSE /\ authToken' = Null
            /\ currentUser' = Null
            /\ localStorage' = l
            /\ sessionStorage' = s

\* (mutation of LoginStorage: the remember flag is ignored)
LoginStorage_alwaysLocal(remember) == "local"

\* the storage that login writes the token pair to
LoginStorage(remember) == IF remember THEN "local" ELSE "session"

\* (mutation of RefreshStorage: the new token always goes to localStorage)
RefreshStorage_alwaysLocal(l) == "local"

\* the storage that refreshToken writes the new token to
RefreshStorage(l) == IF Truthy(l.authToken) THEN "local" ELSE "session"

\* the storage that refreshToken reads the refresh token from
RefreshSource(l) == IF Truthy(l.refreshToken) THEN "local" ELSE "session"

\* ------------------------------------------------------------ in-flight bag
Inflight == BagCardinality(calls)

Call(op, via, remember, rtFrom) ==
  [op |-> op, via |-> via, remember |-> remember, rtFrom |-> rtFrom, stale |-> FALSE]

Add(b, c) == b (+) SetToBag({c})
Remove(b, c) == b (-) SetToBag({c})

\* every request in flight has now seen a logout complete
MarkStale(b) ==
  LET marked == { [c EXCEPT !.stale = TRUE] : c \in BagToSet(b) }
  IN [d \in marked |->
        CopiesIn(d, b) + CopiesIn([d EXCEPT !.stale = FALSE], b)]

\* the step taken: an "issue" (a request went out) or a "done" (the operation
\* call.op finished with outcome out, and threw to its caller or returned)
Event(kind, call, out, threw) ==
  [kind |-> kind, call |-> call, out |-> out, threw |-> threw, boot |-> "none"]

\* what AuthService.initializeAuth finds in the store (l, s) it reads
BootKind(l, s) ==
  IF l = EmptyLocal /\ s = EmptySession THEN "empty"
  ELSE IF Truthy(l.user) /\ ~JSON_parses(l.user) THEN "corrupt"
  ELSE IF Truthy(OrElse(l.authToken, s.authToken)) /\ Truthy(l.user) THEN "restorable"
  ELSE "partial"


\* ------------------------------------------------------------------- Init
\* A fresh browser after the page has loaded: both storages empty, the
\* AuthService singleton constructed over them, AuthProvider mounted and
\* its initializeAuth finished (nothing to restore).
AuthInit ==
  /\ authToken = Null
  /\ currentUser = Null
  /\ localStorage = EmptyLocal
  /\ sessionStorage = EmptySession
  /\ user = Null
  /\ token = Null
  /\ isLoading = FALSE
  /\ error = Null
  /\ calls = EmptyBag
  /\ ev = NoEvent

\* ---------------------------------------------------------------- bootstrap
\* AuthProvider.initializeAuth up to its await (the mount effect), reading
\* the AuthService that the constructor has just set up
Provider_initializeAuth(kind) ==
  /\ error' = Null
  /\ IF IsAuthenticatedOf(authToken', currentUser')
       THEN \* authService.getCurrentUser() passes its guard and awaits GET /auth/me
            /\ user' = currentUser'
            /\ token' = authToken'
            /\ isLoading' = TRUE
            /\ calls' = SetToBag({Call("getCurrentUser", "init", FALSE, "none")})
            /\ ev' = [Event("issue", Call("getCurrentUser", "init", FALSE, "none"), "none", FALSE)
                        EXCEPT !.boot = kind]
       ELSE /\ user' = Null
            /\ token' = Null
            /\ isLoading' = FALSE
            /\ calls' = EmptyBag
            /\ ev' = [Event("done", Call("initializeAuth", "init", FALSE, "none"), "ok", FALSE)
                        EXCEPT !.boot = kind]

\* The page is loaded again (a reload keeps sessionStorage, a new browser
\* session starts with it empty): every pending continuation dies with the
\* old page, the module is evaluated again, the AuthService constructor runs
\* initializeAuth over what the storages hold, and AuthProvider mounts.
PageLoad(newSession) ==
  LET s == IF newSession THEN EmptySession ELSE sessionStorage
  IN /\ initializeAuth(localStorage, s)
     /\ Provider_initializeAuth(BootKind(localStorage, s))

\* -------------------------------------------------------------------- login
\* AuthProvider.login up to the await inside AuthService.login
login_call(remember) ==
  /\ Inflight < MaxInflight
  /\ isLoading' = TRUE
  /\ error' = Null
  /\ calls' = Add(calls, Call("login", "ctx", remember, "none"))
  /\ ev' = Event("issue", Call("login", "ctx", remember, "none"), "none", FALSE)
  /\ UNCHANGED <<svcVars, user, token>>

\* AuthService.login after POST /auth/login answered with data
AuthService_login_ok(c, resp) ==
  /\ authToken' = resp.token
  /\ currentUser' = resp.user
  /\ IF LoginStorage(c.remember) = "local"
       THEN /\ localStorage' = [authToken |-> resp.token,
                                refreshToken |-> resp.refreshToken,
                                user |-> JSON_stringify(resp.user)]
            /\ sessionStorage' = sessionStorage
       ELSE /\ sessionStorage' = [authToken |-> resp.token,
                                  refreshToken |-> resp.refreshToken]
            /\ localStorage' = [localStorage EXCEPT !.user = JSON_stringify(resp.user)]

\* what AuthService.login leaves of the session when the request failed
AuthService_login_fail ==
  UNCHANGED svcVars

\* the response arrives with success and data: AuthService.login returns it,
\* AuthProvider.login checks it and sets its state
login_ok(c, resp) ==
  /\ c.op = "login" /\ BagIn(c, calls)
  /\ AuthService_login_ok(c, resp)
  /\ IF Truthy(resp.user) /\ Truthy(resp.token)
       THEN /\ user' = resp.user
            /\ token' = resp.token
            /\ error' = error
            /\ ev' = Event("done", c, "ok", FALSE)
       ELSE /\ user' = Null
            /\ token' = Null
            /\ error' = "Invalid login response from server"
            /\ ev' = Event("done", c, "invalid", TRUE)
  /\ isLoading' = FALSE
  /\ calls' = Remove(calls, c)

\* (mutation of login_fail: the context keeps the user and token it had)
login_fail_keepsContext(c, reason) ==
  /\ c.op = "login" /\ BagIn(c, calls)
  /\ AuthService_login_fail
  /\ error' = reason
  /\ UNCHANGED <<user, token>>
  /\ isLoading' = FALSE
  /\ calls' = Remove(calls, c)
  /\ ev' = Event("done", c, reason, TRUE)

\* the request failed (rejected credentials, or no response)
login_fail(c, reason) ==
  /\ c.op = "login" /\ BagIn(c, calls)
  /\ AuthService_login_fail
  /\ error' = reason
  /\ user' = Null
  /\ token' = Null
  /\ isLoading' = FALSE
  /\ calls' = Remove(calls, c)
  /\ ev' = Event("done", c, reason, TRUE)

\* ------------------------------------------------------------------- logout
\* AuthProvider.logout (via = "ctx") or a direct authService.logout()
\* (via = "svc", as Header.handleLogout calls it), up to the await
logout_call(via) ==
  /\ Inflight < MaxInflight
  /\ IF via = "ctx"
       THEN isLoading' = TRUE /\ error' = Null
       ELSE UNCHANGED <<isLoading, error>>
  /\ calls' = Add(calls, Call("logout", via, FALSE, "none"))
  /\ ev' = Event("issue", Call("logout", via, FALSE, "none"), "none", FALSE)
  /\ UNCHANGED <<svcVars, user, token>>

\* POST /auth/logout answered or failed (out): the finally block clears
logout_done(c, out) ==
  /\ c.op = "logout" /\ BagIn(c, calls)
  /\ clearAuth
  /\ IF c.via = "ctx"
       THEN user' = Null /\ token' = Null /\ isLoading' = FALSE
       ELSE UNCHANGED <<user, token, isLoading>>
  /\ calls' = MarkStale(Remove(calls, c))
  /\ ev' = Event("done", c, out, FALSE)
  /\ UNCHANGED <<error>>


\* ------------------------------------------------------------- refreshToken
\* AuthService.refreshToken (called through useToken().refreshToken) up to
\* its await; with no refresh token in either storage it throws before any
\* request is made and the catch block clears the session.
refreshToken_call ==
  LET rt == OrElse(localStorage.refreshToken, sessionStorage.refreshToken)
      c == Call("refreshToken", "svc", FALSE, RefreshSource(localStorage))
  IN /\ Inflight < MaxInflight
     /\ IF ~Truthy(rt)
          THEN /\ clearAuth
               /\ calls' = calls
               /\ ev' = Event("done", Call("refreshToken", "svc", FALSE, "none"),
                              "No refresh token available", TRUE)
          ELSE /\ UNCHANGED svcVars
               /\ calls' = Add(calls, c)
               /\ ev' = Event("issue", c, "none", FALSE)
     /\ UNCHANGED ctxVars

\* POST /auth/refresh answered with a new token
refreshToken_ok(c, newToken) ==
  /\ c.op = "refreshToken" /\ BagIn(c, calls)
  /\ IF RefreshStorage(localStorage) = "local"
       THEN /\ localStorage' = [localStorage EXCEPT !.authToken = newToken]
            /\ sessionStorage' = sessionStorage
       ELSE /\ sessionStorage' = [sessionStorage EXCEPT !.authToken = newToken]
            /\ localStorage' = localStorage
  /\ authToken' = newToken
  /\ currentUser' = currentUser
  /\ calls' = Remove(calls, c)
  /\ ev' = Event("done", c, "ok", FALSE)
  /\ UNCHANGED ctxVars

\* (mutation of refreshToken_fail: the catch block does not clear the session)
refreshToken_fail_keepsSession(c, reason) ==
  /\ c.op = "refreshToken" /\ BagIn(c, calls)
  /\ UNCHANGED svcVars
  /\ calls' = Remove(calls, c)
  /\ ev' = Event("done", c, reason, TRUE)
  /\ UNCHANGED ctxVars

\* the exchange was rejected or could not complete
refreshToken_fail(c, reason) ==
  /\ c.op = "refreshToken" /\ BagIn(c, calls)
  /\ clearAuth
  /\ calls' = Remove(calls, c)
  /\ ev' = Event("done", c, reason, TRUE)
  /\ UNCHANGED ctxVars

\* ----------------------------------------------------------- getCurrentUser
\* AuthProvider.refreshUser up to the await inside AuthService.getCurrentUser
refreshUser_call ==
  LET c == Call("getCurrentUser", "ctx", FALSE, "none")
  IN /\ Inflight < MaxInflight
     /\ IF ~isAuthenticated
          THEN /\ error' = "Not authenticated"
               /\ calls' = calls
               /\ ev' = Event("done", c, "Not authenticated", TRUE)
          ELSE /\ error' = Null
               /\ calls' = Add(calls, c)
               /\ ev' = Event("issue", c, "none", FALSE)
     /\ UNCHANGED <<svcVars, user, token, isLoading>>

\* (mutation of AuthService_getCurrentUser_ok: the stored user is not
\* rewritten)
AuthService_getCurrentUser_ok_memoryOnly(data) ==
  /\ currentUser' = data
  /\ UNCHANGED <<authToken, localStorage, sessionStorage>>

\* AuthService.getCurrentUser after GET /auth/me answered with a user
AuthService_getCurrentUser_ok(data) ==
  /\ currentUser' = data
  /\ localStorage' = [localStorage EXCEPT !.user = JSON_stringify(data)]
  /\ UNCHANGED <<authToken, sessionStorage>>

\* GET /auth/me answered: the caller (AuthProvider.initializeAuth for
\* via = "init", AuthProvider.refreshUser for via = "ctx") takes the user
getCurrentUser_ok(c, data) ==
  /\ c.op = "getCurrentUser" /\ BagIn(c, calls)
  /\ AuthService_getCurrentUser_ok(data)
  /\ user' = data
  /\ isLoading' = IF c.via = "init" THEN FALSE ELSE isLoading
  /\ calls' = Remove(calls, c)
  /\ ev' = Event("done", c, "ok", FALSE)
  /\ UNCHANGED <<token, error>>

\* (mutation of getCurrentUser_fail: a failed bootstrap refresh drops the
\* cached session)
getCurrentUser_fail_forcesLogout(c, reason) ==
  /\ c.op = "getCurrentUser" /\ BagIn(c, calls)
  /\ clearAuth
  /\ user' = Null
  /\ token' = Null
  /\ isLoading' = FALSE
  /\ error' = reason
  /\ calls' = Remove(calls, c)
  /\ ev' = Event("done", c, reason, c.via # "init")

\* (mutation of getCurrentUser_fail: refreshUser treats an authorization
\* failure like any other and only records it)
getCurrentUser_fail_noCascade(c, reason) ==
  /\ c.op = "getCurrentUser" /\ BagIn(c, calls)
  /\ UNCHANGED <<svcVars, user, token>>
  /\ ev' = Event("done", c, reason, c.via # "init")
  /\ isLoading' = IF c.via = "init" THEN FALSE ELSE isLoading
  /\ error' = IF c.via = "init" THEN error ELSE reason
  /\ calls' = Remove(calls, c)

\* GET /auth/me failed with reason. initializeAuth only logs it;
\* refreshUser records it and, for an authorization failure, starts logout()
getCurrentUser_fail(c, reason) ==
  /\ c.op = "getCurrentUser" /\ BagIn(c, calls)
  /\ UNCHANGED <<svcVars, user, token>>
  /\ ev' = Event("done", c, reason, c.via # "init")
  /\ IF c.via = "init"
       THEN /\ isLoading' = FALSE
            /\ error' = error
            /\ calls' = Remove(calls, c)
       ELSE IF reason = AuthFailure
              THEN /\ isLoading' = TRUE
                   /\ error' = Null
                   /\ calls' = Add(Remove(calls, c),
                                   [Call("logout", "ctx", FALSE, "none") EXCEPT !.stale = c.stale])
              ELSE /\ isLoading' = isLoading
                   /\ error' = reason
                   /\ calls' = Remove(calls, c)

\* ------------------------------------------------- BookingManagement screen
DefaultFilters == [status |-> "", search |-> ""]
Statuses == {"", "PENDING"}
SearchTerms == {"", "a"}

\* the backend's bookings: id i has a status and a customer name
Items == 1..NumItems
StatusOf(i) == IF i % 2 = 1 THEN "PENDING" ELSE "CONFIRMED"
NameOf(i) == IF i <= 2 THEN "a" ELSE "b"

Matches(i, f) ==
  /\ (f.status = "" \/ StatusOf(i) = f.status)
  /\ (f.search = "" \/ NameOf(i) = f.search)

Matching(f) == { i \in Items : Matches(i, f) }

\* position of i among the matching bookings, in id order
Rank(i, f) == Cardinality({ j \in Matching(f) : j <= i })

CeilDiv(a, b) == (a + b - 1) \div b

\* GET /bookings?page&limit&<filters>: the page's items in order, the number
\* of matching bookings and the page count
PageData(f, p, limit) ==
  LET ids == { i \in Matching(f) : (p - 1) * limit < Rank(i, f) /\ Rank(i, f) <= p * limit }
  IN [k \in 1..Cardinality(ids) |->
        CHOOSE i \in ids : Cardinality({ j \in ids : j <= i }) = k]

Response(r) ==
  [data |-> PageData(r.filters, r.page, r.limit),
   meta |-> [total |-> Cardinality(Matching(r.filters)),
             totalPages |-> CeilDiv(Cardinality(Matching(r.filters)), r.limit)]]

\* the mount effect has run: the first loadBookings() awaits its response
ListInit ==
  /\ bookings = << >>
  /\ pagination = [page |-> 1, limit |-> PageLimit, total |-> 0, totalPages |-> 0]
  /\ filters = DefaultFilters
  /\ loading = TRUE
  /\ bookingsError = Null
  /\ requests = SetToBag({[filters |-> DefaultFilters, page |-> 1, limit |-> PageLimit, seq |-> 1]})
  /\ reqSeq = 1
  /\ shownSeq = 0

\* loadBookings up to its await, as the effect on [pagination.page, filters]
\* runs it with the new filters f and page p
loadBookings_call(f, p) ==
  /\ reqSeq < MaxRequests
  /\ BagCardinality(requests) < MaxInflight
  /\ loading' = TRUE
  /\ bookingsError' = Null
  /\ reqSeq' = reqSeq + 1
  /\ requests' = Add(requests, [filters |-> f, page |-> p, limit |-> pagination.limit,
                                seq |-> reqSeq + 1])
  /\ UNCHANGED <<bookings, shownSeq>>

\* the search input's onChange
setSearch(v) ==
  /\ v # filters.search
  /\ filters' = [filters EXCEPT !.search = v]
  /\ pagination' = pagination
  /\ loadBookings_call(filters', pagination.page)

\* the status select's onChange
setStatus(v) ==
  /\ v # filters.status
  /\ filters' = [filters EXCEPT !.status = v]
  /\ pagination' = pagination
  /\ loadBookings_call(filters', pagination.page)

\* the Reset Filter button
resetFilter ==
  /\ filters' = DefaultFilters
  /\ pagination' = [pagination EXCEPT !.page = 1]
  /\ loadBookings_call(DefaultFilters, 1)

\* the Sebelumnya (previous) button
prevPage ==
  /\ pagination.totalPages > 1
  /\ pagination.page # 1
  /\ pagination' = [pagination EXCEPT !.page = pagination.page - 1]
  /\ filters' = filters
  /\ loadBookings_call(filters, pagination.page - 1)

\* the Selanjutnya (next) button
nextPage ==
  /\ pagination.totalPages > 1
  /\ pagination.page # pagination.totalPages
  /\ pagination' = [pagination EXCEPT !.page = pagination.page + 1]
  /\ filters' = filters
  /\ loadBookings_call(filters, pagination.page + 1)

\* loadBookings after getBookings resolved
loadBookings_ok(r) ==
  /\ BagIn(r, requests)
  /\ bookings' = Response(r).data
  /\ pagination' = [pagination EXCEPT !.total = Response(r).meta.total,
                                      !.totalPages = Response(r).meta.totalPages]
  /\ loading' = FALSE
  /\ shownSeq' = r.seq
  /\ requests' = Remove(requests, r)
  /\ UNCHANGED <<filters, bookingsError, reqSeq>>

\* (mutation of loadBookings_fail: the failure empties the list)
loadBookings_fail_clearsList(r) ==
  /\ BagIn(r, requests)
  /\ bookingsError' = NetFailure
  /\ loading' = FALSE
  /\ bookings' = << >>
  /\ requests' = Remove(requests, r)
  /\ UNCHANGED <<pagination, filters, reqSeq, shownSeq>>

\* loadBookings after getBookings threw
loadBookings_fail(r) ==
  /\ BagIn(r, requests)
  /\ bookingsError' = NetFailure
  /\ loading' = FALSE
  /\ requests' = Remove(requests, r)
  /\ UNCHANGED <<bookings, pagination, filters, reqSeq, shownSeq>>

\* --------------------------------------------------------------- Login page
\* the shortest password validateForm accepts
MinPasswordLength == 6

FormEmails == {"", "admin", "admin@example.com", "manager@example.com"}
FormPasswords == {"", "12345", "password", "password123", "manager123"}

\* password.length
Length(p) ==
  CASE p = "" -> 0
    [] p = "12345" -> 5
    [] p = "password" -> 8
    [] p = "password123" -> 11
    [] p = "manager123" -> 10

\* /^[^\s@]+@[^\s@]+\.[^\s@]+$/.test(email)
EmailFormatOk(e) == e \in {"admin@example.com", "manager@example.com"}

EmptyForm == [email |-> "", password |-> "", remember |-> FALSE]
NoErrors == [email |-> Null, password |-> Null, general |-> Null]
Checking == [isConnected |-> FALSE, checking |-> TRUE]
NoSubmit == [form |-> EmptyForm, isConnected |-> FALSE, stage |-> "none"]

\* the newErrors that validateForm computes for the form f
validateForm(f) ==
  [email |-> IF f.email = "" THEN "Email is required"
             ELSE IF ~EmailFormatOk(f.email) THEN "Please enter a valid email address"
             ELSE Null,
   password |-> IF f.password = "" THEN "Password is required"
                ELSE IF Length(f.password) < MinPasswordLength
                       THEN "Password must be at least 6 characters long"
                ELSE Null,
   general |-> Null]

\* handleMockLogin's validDemoCredentials
validDemoCredentials ==
  { <<"admin@example.com", "password123">>,
    <<"admin@rusdibarber.com", "Admin123!">>,
    <<"manager@example.com", "manager123">>,
    <<"stylist@example.com", "stylist123">> }

isValidDemo(f) == <<f.email, f.password>> \in validDemoCredentials

DemoRejected == "Invalid credentials. For demo mode, use: admin@example.com / password123"

\* handleMockLogin's mockUser: the role follows the email
mockUser(email) ==
  IF email = "manager@example.com" THEN "demoManager"
  ELSE IF email = "stylist@example.com" THEN "demoStylist"
  ELSE "demoAdmin"

\* what handleSubmit's outer catch shows for the message msg
GeneralError(msg) ==
  IF msg \in {DemoRejected, AuthFailure}
    THEN "Invalid email or password. Please try again."
  ELSE IF msg = NetFailure
    THEN "Network error. Please check your connection and try again."
  ELSE msg

\* the URL shown once the router has rendered target: ProtectedRoute shows
\* the spinner while isLoading and sends an unauthenticated context to
\* /login; the Login page sends an authenticated context to /dashboard
Route(target, usr, tok, ld) ==
  IF ContextIsAuthenticatedOf(usr, tok) THEN "/dashboard"
  ELSE IF target = "/dashboard" /\ ld THEN "/dashboard"
  ELSE "/login"

\* the Login component as it mounts
LoginFresh ==
  /\ formData' = EmptyForm
  /\ connectionStatus' = Checking
  /\ loginLoading' = FALSE
  /\ errors' = NoErrors
  /\ submitted' = NoSubmit

\* the app has loaded at /login: Login is mounted and its health check runs
LoginInit ==
  /\ route = "/login"
  /\ formData = EmptyForm
  /\ connectionStatus = Checking
  /\ loginLoading = FALSE
  /\ errors = NoErrors
  /\ submitted = NoSubmit

PageEvent(handler) == Event("done", Call(handler, "page", FALSE, "none"), "ok", FALSE)

\* the page is loaded (again) at the URL it shows
App_load(newSession) ==
  /\ PageLoad(newSession)
  /\ route' = Route(route, user', token', isLoading')
  /\ LoginFresh

\* the bootstrap's GET /auth/me answered
App_getCurrentUser_ok(c, data) ==
  /\ c.via = "init"
  /\ getCurrentUser_ok(c, data)
  /\ route' = Route(route, user', token', isLoading')
  /\ UNCHANGED <<formData, connectionStatus, loginLoading, errors, submitted>>

\* the bootstrap's GET /auth/me failed
App_getCurrentUser_fail(c, reason) ==
  /\ c.via = "init"
  /\ getCurrentUser_fail(c, reason)
  /\ route' = Route(route, user', token', isLoading')
  /\ UNCHANGED <<formData, connectionStatus, loginLoading, errors, submitted>>

\* checkBackendConnection after healthService.checkConnection() settled
checkBackendConnection_done(isConnected) ==
  /\ route = "/login"
  /\ connectionStatus.checking
  /\ connectionStatus' = [isConnected |-> isConnected, checking |-> FALSE]
  /\ ev' = PageEvent("checkBackendConnection")
  /\ UNCHANGED <<svcVars, ctxVars, calls>>
  /\ UNCHANGED <<route, formData, loginLoading, errors, submitted>>

\* handleInputChange for the field name
handleInputChange(name, value) ==
  /\ route = "/login"
  /\ formData[name] # value
  /\ formData' = [formData EXCEPT ![name] = value]
  /\ errors' = IF name \in {"email", "password"}
                 THEN [errors EXCEPT ![name] = Null]
                 ELSE errors
  /\ error' = Null
  /\ ev' = PageEvent("handleInputChange")
  /\ UNCHANGED <<svcVars, user, token, isLoading, calls>>
  /\ UNCHANGED <<route, connectionStatus, loginLoading, submitted>>

\* the "demo credentials" button
handleDemoLogin ==
  /\ route = "/login"
  /\ formData' = [email |-> "admin@example.com", password |-> "password123",
                  remember |-> TRUE]
  /\ errors' = NoErrors
  /\ ev' = PageEvent("handleDemoLogin")
  /\ UNCHANGED <<svcVars, ctxVars, calls>>
  /\ UNCHANGED <<route, connectionStatus, loginLoading, submitted>>

\* handleSubmit up to the await of authLogin(formData); the submit button is
\* disabled while loading || authLoading
handleSubmit ==
  /\ route = "/login"
  /\ ~loginLoading /\ ~isLoading
  /\ IF validateForm(formData) # NoErrors
       THEN /\ errors' = validateForm(formData)
            /\ ev' = PageEvent("handleSubmit")
            /\ UNCHANGED <<svcVars, ctxVars, calls>>
            /\ UNCHANGED <<route, formData, connectionStatus, loginLoading, submitted>>
       ELSE /\ login_call(formData.remember)
            /\ loginLoading' = TRUE
            /\ errors' = NoErrors
            /\ submitted' = [form |-> formData,
                             isConnected |-> connectionStatus.isConnected,
                             stage |-> "login"]
            /\ UNCHANGED <<route, formData, connectionStatus>>

\* handleSubmit after authLogin threw msg: the demo fallback is entered when
\* the connectionStatus of the submitting render says not connected
handleSubmit_catch(msg) ==
  IF ~submitted.isConnected /\ isValidDemo(submitted.form)
    THEN \* handleMockLogin awaits its one-second delay
         /\ submitted' = [submitted EXCEPT !.stage = "mock"]
         /\ UNCHANGED <<route, formData, connectionStatus, loginLoading, errors>>
    ELSE /\ errors' = [NoErrors EXCEPT !.general =
                         GeneralError(IF submitted.isConnected THEN msg ELSE DemoRejected)]
         /\ loginLoading' = FALSE
         /\ submitted' = NoSubmit
         /\ UNCHANGED <<route, formData, connectionStatus>>

\* handleSubmit after authLogin answered: navigate to the dashboard, or the
\* catch path when AuthProvider.login rejected the response
handleSubmit_login_ok(c, resp) ==
  /\ submitted.stage = "login"
  /\ login_ok(c, resp)
  /\ IF ev'.out = "ok"
       THEN /\ route' = Route("/dashboard", user', token', isLoading')
            /\ LoginFresh
       ELSE handleSubmit_catch("Invalid login response from server")

\* handleSubmit after authLogin failed
handleSubmit_login_fail(c, reason) ==
  /\ submitted.stage = "login"
  /\ login_fail(c, reason)
  /\ handleSubmit_catch(reason)

\* handleMockLogin after its delay: the demo session is written to storage
\* and the page navigates to the dashboard
handleMockLogin_done ==
  /\ submitted.stage = "mock"
  /\ IF LoginStorage(submitted.form.remember) = "local"
       THEN /\ localStorage' = [authToken |-> MockToken,
                                refreshToken |-> MockRefreshToken,
                                user |-> JSON_stringify(mockUser(submitted.form.email))]
            /\ sessionStorage' = sessionStorage
       ELSE /\ sessionStorage' = [authToken |-> MockToken,
                                  refreshToken |-> MockRefreshToken]
            /\ localStorage' = [localStorage EXCEPT
                                  !.user = JSON_stringify(mockUser(submitted.form.email))]
  /\ ev' = Event("done", Call("handleMockLogin", "page", submitted.form.remember, "none"),
                 "ok", FALSE)
  /\ UNCHANGED <<authToken, currentUser, ctxVars, calls>>
  /\ route' = Route("/dashboard", user, token, isLoading)
  /\ LoginFresh

\* Header.handleLogout up to the await of authService.logout()
Header_handleLogout ==
  /\ route = "/dashboard"
  /\ ~isLoading
  /\ logout_call("svc")
  /\ UNCHANGED pageVars

\* Header.handleLogout after authService.logout() settled: the session is
\* cleared and window.location.href = "/login" loads the app again
Header_handleLogout_done(c, out) ==
  /\ c.op = "logout" /\ c.via = "svc" /\ BagIn(c, calls)
  /\ clearAuth
  /\ user' = Null
  /\ token' = Null
  /\ isLoading' = FALSE
  /\ error' = Null
  /\ calls' = EmptyBag
  /\ ev' = [Event("done", c, out, FALSE) EXCEPT !.boot = "empty"]
  /\ route' = "/login"
  /\ LoginFresh

\* ------------------------------------------------- Pelanggan (customers) screen
\* list.filter((x) => x.id !== id)
Without(list, id) ==
  LET keep(x) == x # id
  IN SelectSeq(list, keep)

\* GET /customers?page&limit&search over the customers the backend holds:
\* the page's items in id order, and the number of matching customers
CustomersResponse(held, r) ==
  LET matching == { i \in held : r.search = "" \/ NameOf(i) = r.search }
      rank(i) == Cardinality({ j \in matching : j <= i })
      ids == { i \in matching : (r.page - 1) * r.limit < rank(i) /\ rank(i) <= r.page * r.limit }
  IN [data |-> [k \in 1..Cardinality(ids) |->
                  CHOOSE i \in ids : Cardinality({ j \in ids : j <= i }) = k],
      total |-> Cardinality(matching),
      limit |-> r.limit]

CustomersStep(handler, id) == [handler |-> handler, id |-> id]

\* the mount effect has run: the first fetchCustomers() awaits its response
CustomersInit ==
  /\ customers = << >>
  /\ page = 1
  /\ totalPages = 1
  /\ searchTerm = ""
  /\ customersLoading = TRUE
  /\ customersError = Null
  /\ fetches = SetToBag({[page |-> 1, search |-> "", limit |-> PageLimit, seq |-> 1]})
  /\ fetchSeq = 1
  /\ deletions = EmptyBag
  /\ deleteCount = 0
  /\ serverCustomers = Items
  /\ customersStep = CustomersStep("mount", 0)

\* the request that fetchCustomers sends as the k-th of a step, from a render
\* whose page is p and whose searchTerm is term
FetchRequest(p, term, k) ==
  [page |-> p, search |-> term, limit |-> PageLimit, seq |-> fetchSeq + k]

\* the search input's onChange: fetchCustomers is rebuilt for the new
\* searchTerm and the effect on [fetchCustomers] runs it
setSearchTerm(v) ==
  /\ v # searchTerm
  /\ fetchSeq < MaxRequests
  /\ BagCardinality(fetches) < MaxInflight
  /\ searchTerm' = v
  /\ customersLoading' = TRUE
  /\ fetches' = Add(fetches, FetchRequest(page, v, 1))
  /\ fetchSeq' = fetchSeq + 1
  /\ customersStep' = CustomersStep("setSearchTerm", 0)
  /\ UNCHANGED <<customers, page, totalPages, customersError, deletions, deleteCount,
                 serverCustomers>>

\* the search form's onSubmit: setPage(1), then fetchCustomers() of the
\* submitting render; when the page changes, the effect runs the rebuilt
\* fetchCustomers as well
handleSearch ==
  /\ fetchSeq + (IF page = 1 THEN 1 ELSE 2) <= MaxRequests
  /\ BagCardinality(fetches) + (IF page = 1 THEN 1 ELSE 2) <= MaxInflight
  /\ page' = 1
  /\ customersLoading' = TRUE
  /\ IF page = 1
       THEN /\ fetches' = Add(fetches, FetchRequest(page, searchTerm, 1))
            /\ fetchSeq' = fetchSeq + 1
       ELSE /\ fetches' = Add(Add(fetches, FetchRequest(page, searchTerm, 1)),
                              FetchRequest(1, searchTerm, 2))
            /\ fetchSeq' = fetchSeq + 2
  /\ customersStep' = CustomersStep("handleSearch", 0)
  /\ UNCHANGED <<customers, totalPages, searchTerm, customersError, deletions, deleteCount,
                 serverCustomers>>

\* the previous / next buttons
handlePageChange(newPage) ==
  /\ newPage # page
  /\ newPage > 0 /\ newPage <= totalPages
  /\ fetchSeq < MaxRequests
  /\ BagCardinality(fetches) < MaxInflight
  /\ page' = newPage
  /\ customersLoading' = TRUE
  /\ fetches' = Add(fetches, FetchRequest(newPage, searchTerm, 1))
  /\ fetchSeq' = fetchSeq + 1
  /\ customersStep' = CustomersStep("handlePageChange", 0)
  /\ UNCHANGED <<customers, totalPages, searchTerm, customersError, deletions, deleteCount,
                 serverCustomers>>

\* fetchCustomers after getCustomers resolved
fetchCustomers_ok(r) ==
  /\ BagIn(r, fetches)
  /\ customers' = CustomersResponse(serverCustomers, r).data
  /\ totalPages' = CeilDiv(CustomersResponse(serverCustomers, r).total,
                           CustomersResponse(serverCustomers, r).limit)
  /\ customersLoading' = FALSE
  /\ customersError' = Null
  /\ fetches' = Remove(fetches, r)
  /\ customersStep' = CustomersStep("fetchCustomers_ok", 0)
  /\ UNCHANGED <<page, searchTerm, fetchSeq, deletions, deleteCount, serverCustomers>>

\* fetchCustomers after getCustomers threw
fetchCustomers_fail(r) ==
  /\ BagIn(r, fetches)
  /\ customersError' = "Failed to fetch customer data"
  /\ customersLoading' = FALSE
  /\ fetches' = Remove(fetches, r)
  /\ customersStep' = CustomersStep("fetchCustomers_fail", 0)
  /\ UNCHANGED <<customers, page, totalPages, searchTerm, fetchSeq, deletions, deleteCount,
                 serverCustomers>>

\* handleDeleteCustomer(id), confirmed, up to its await; the handler keeps
\* the customers of the render it was created in
handleDeleteCustomer(id) ==
  /\ \E k \in 1..Len(customers) : customers[k] = id
  /\ deleteCount < MaxDeletes
  /\ deletions' = Add(deletions, [id |-> id, customers |-> customers])
  /\ deleteCount' = deleteCount + 1
  /\ customersStep' = CustomersStep("handleDeleteCustomer", id)
  /\ UNCHANGED <<customers, page, totalPages, searchTerm, customersLoading, customersError,
                 fetches, fetchSeq, serverCustomers>>

\* handleDeleteCustomer after deleteCustomer resolved
deleteCustomer_ok(d) ==
  /\ BagIn(d, deletions)
  /\ serverCustomers' = serverCustomers \ {d.id}
  /\ customers' = Without(d.customers, d.id)
  /\ deletions' = Remove(deletions, d)
  /\ customersStep' = CustomersStep("deleteCustomer_ok", d.id)
  /\ UNCHANGED <<page, totalPages, searchTerm, customersLoading, customersError,
                 fetches, fetchSeq, deleteCount>>

\* handleDeleteCustomer after deleteCustomer threw
deleteCustomer_fail(d) ==
  /\ BagIn(d, deletions)
  /\ deletions' = Remove(deletions, d)
  /\ customersStep' = CustomersStep("deleteCustomer_fail", d.id)
  /\ UNCHANGED <<customers, page, totalPages, searchTerm, customersLoading, customersError,
                 fetches, fetchSeq, deleteCount, serverCustomers>>

\* ---------------------------------------------------------- isTokenExpired
\* A token as isTokenExpired sees it: whether token.split(".")[1] exists,
\* whether atob and JSON.parse accept it, and what payload.exp is.
TokenKinds == {"noPayload", "notBase64", "notJson", "jsonNull", "noExp", "expText",
               "expNumber"}
NoToken == [kind |-> "absent", exp |-> 0]
TokenShapes ==
  {NoToken}
  \cup { [kind |-> k, exp |-> 0] : k \in TokenKinds \ {"expNumber"} }
  \cup { [kind |-> "expNumber", exp |-> e] : e \in 0..MaxTime }

NoCheck == [kind |-> "none", token |-> NoToken, held |-> NoToken, now |-> 0,
            result |-> FALSE]

\* atob(token.split(".")[1]) throws: there is no second segment (atob of
\* "undefined") or it is not base64
atob_throws(t) == t.kind \in {"noPayload", "notBase64"}

\* JSON.parse of the decoded payload throws
JSON_parse_throws(t) == t.kind = "notJson"

\* reading payload.exp throws: the payload is the JSON value null
exp_throws(t) == t.kind = "jsonNull"

\* payload.exp < currentTime: a missing exp (undefined) and a non-numeric
\* text compare as NaN, which is less than nothing
exp_less(t, now) == t.kind = "expNumber" /\ t.exp < now

\* token || this.authToken
tokenToCheck(t, held) == IF t.kind # "absent" THEN t ELSE held

\* AuthService.isTokenExpired(token) with this.authToken = held at time now
isTokenExpired(t, held, now) ==
  IF tokenToCheck(t, held).kind = "absent" THEN TRUE
  ELSE IF \/ atob_throws(tokenToCheck(t, held))
          \/ JSON_parse_throws(tokenToCheck(t, held))
          \/ exp_throws(tokenToCheck(t, held))
         THEN TRUE
  ELSE exp_less(tokenToCheck(t, held), now)

\* a call of isTokenExpired
isTokenExpired_call(t, held, now) ==
  tokenCheck' = [kind |-> "checked", token |-> t, held |-> held, now |-> now,
                 result |-> isTokenExpired(t, held, now)]

\* ------------------------------------------------------- permission evaluator
\* the members of the UserRole enumeration (../types) and their values
UserRole == [ADMIN |-> "ADMIN", MANAGER |-> "MANAGER", STYLIST |-> "STYLIST",
             CUSTOMER |-> "CUSTOMER"]
Roles == {UserRole.ADMIN, UserRole.MANAGER, UserRole.STYLIST, UserRole.CUSTOMER}

\* the user a predicate is evaluated for: nobody, or a user record with its
\* role (one of the four, or a record without a usable role) and an attribute
\* that is not the role
NoUser == [role |-> Null, isActive |-> FALSE]
PermUsers ==
  {NoUser} \cup [role : Roles \cup {Undefined}, isActive : BOOLEAN]

\* user?.role === role
hasRole(u, role) == u # NoUser /\ u.role = role

\* user ? roles.includes(user.role) : false
hasAnyRole(u, roles) == IF u # NoUser THEN u.role \in roles ELSE FALSE

isAdmin(u) == hasRole(u, UserRole.ADMIN)
isManager(u) == hasRole(u, UserRole.MANAGER)
isAdminOrManager(u) == hasAnyRole(u, {UserRole.ADMIN, UserRole.MANAGER})
isStylist(u) == hasRole(u, UserRole.STYLIST)
isCustomer(u) == hasRole(u, UserRole.CUSTOMER)
canAccessDashboard(u) ==
  hasAnyRole(u, {UserRole.ADMIN, UserRole.MANAGER, UserRole.STYLIST})
canManageUsers(u) == hasAnyRole(u, {UserRole.ADMIN, UserRole.MANAGER})
canManageStylists(u) == hasAnyRole(u, {UserRole.ADMIN, UserRole.MANAGER})
canManageAllBookings(u) == hasAnyRole(u, {UserRole.ADMIN, UserRole.MANAGER})
canManageBookings_adminManagerOnly(u) ==
  hasAnyRole(u, {UserRole.ADMIN, UserRole.MANAGER})
canManageBookings(u) ==
  hasAnyRole(u, {UserRole.ADMIN, UserRole.MANAGER, UserRole.STYLIST})
canManageServices(u) == hasAnyRole(u, {UserRole.ADMIN, UserRole.MANAGER})
canManagePayments(u) == hasAnyRole(u, {UserRole.ADMIN, UserRole.MANAGER})
canViewAllAnalytics(u) == hasAnyRole(u, {UserRole.ADMIN, UserRole.MANAGER})
canViewAnalytics(u) ==
  hasAnyRole(u, {UserRole.ADMIN, UserRole.MANAGER, UserRole.STYLIST})
canManageSystemSettings(u) == hasRole(u, UserRole.ADMIN)
canViewFinancialReports(u) == hasAnyRole(u, {UserRole.ADMIN, UserRole.MANAGER})

\* the predicates usePermissions returns that take no argument
RolePredicates == {"isAdmin", "isManager", "isStylist", "isCustomer"}
Capabilities ==
  {"canAccessDashboard", "canManageUsers", "canManageStylists",
   "canManageAllBookings", "canManageBookings", "canManageServices",
   "canManagePayments", "canViewAllAnalytics", "canViewAnalytics",
   "canManageSystemSettings", "canViewFinancialReports"}
PermissionNames == RolePredicates \cup {"isAdminOrManager"} \cup Capabilities

\* usePermissions()[fn]() for the context's user u
usePermissions(fn, u) ==
  CASE fn = "isAdmin" -> isAdmin(u)
    [] fn = "isManager" -> isManager(u)
    [] fn = "isAdminOrManager" -> isAdminOrManager(u)
    [] fn = "isStylist" -> isStylist(u)
    [] fn = "isCustomer" -> isCustomer(u)
    [] fn = "canAccessDashboard" -> canAccessDashboard(u)
    [] fn = "canManageUsers" -> canManageUsers(u)
    [] fn = "canManageStylists" -> canManageStylists(u)
    [] fn = "canManageAllBookings" -> canManageAllBookings(u)
    [] fn = "canManageBookings" -> canManageBookings(u)
    [] fn = "canManageServices" -> canManageServices(u)
    [] fn = "canManagePayments" -> canManagePayments(u)
    [] fn = "canViewAllAnalytics" -> canViewAllAnalytics(u)
    [] fn = "canViewAnalytics" -> canViewAnalytics(u)
    [] fn = "canManageSystemSettings" -> canManageSystemSettings(u)
    [] fn = "canViewFinancialReports" -> canViewFinancialReports(u)

\* AuthService's own predicates over this.currentUser = u
AuthService_hasRole(u, role) == u # NoUser /\ u.role = role
AuthService_hasAnyRole(u, roles) == IF u # NoUser THEN u.role \in roles ELSE FALSE
AuthService_isAdmin(u) == AuthService_hasRole(u, "ADMIN")
AuthService_isManager(u) == AuthService_hasAnyRole(u, {"ADMIN", "MANAGER"})
AuthService_isStylist(u) == AuthService_hasRole(u, "STYLIST")
AuthService_isCustomer(u) == AuthService_hasRole(u, "CUSTOMER")

\* authService[fn]() with this.currentUser = u
AuthService_predicate(fn, u) ==
  CASE fn = "isAdmin" -> AuthService_isAdmin(u)
    [] fn = "isManager" -> AuthService_isManager(u)
    [] fn = "isStylist" -> AuthService_isStylist(u)
    [] fn = "isCustomer" -> AuthService_isCustomer(u)

NoPermCheck == [by |-> "none", fn |-> "none", user |-> NoUser, result |-> FALSE]

\* a component calls one function of usePermissions() for the context's user
usePermissions_call(fn, u) ==
  permCheck' = [by |-> "usePermissions", fn |-> fn, user |-> u,
                result |-> usePermissions(fn, u)]

\* a caller asks authService itself
AuthService_predicate_call(fn, u) ==
  permCheck' = [by |-> "authService", fn |-> fn, user |-> u,
                result |-> AuthService_predicate(fn, u)]

\* ------------------------------------------------- ServiceManagement screen
\* what usePermissions() hands out under the names isAdmin, canManageServices:
\* the useCallback function itself, which the screen tests without calling it
FunctionRef == "<function>"
ServiceIds == {"s1", "s2"}
DeleteRefused == "Only administrators can delete services"
LoadFailed == "Failed to load services"
DeleteFailed == "Failed to delete service"

NoServiceStep == [handler |-> "none", id |-> "none", refused |-> FALSE]
ServiceStep(handler, id, refused) ==
  [handler |-> handler, id |-> id, refused |-> refused]
ServiceCall(op, id) == [op |-> op, id |-> id]

\* if (!canManageServices) return <Access Denied>
AccessDenied == ~Truthy(FunctionRef)

\* the screen is rendered for the signed-in user; its effects have not run
ServiceInit ==
  /\ serviceUser \in PermUsers
  /\ serviceError = Null
  /\ serviceCalls = EmptyBag
  /\ serviceStep = NoServiceStep

\* loadServices up to its await
loadServices_call == serviceCalls' = Add(serviceCalls, ServiceCall("load", "none"))

\* useEffect(() => { if (canManageServices) loadServices() }, [canManageServices])
ServiceManagement_effect ==
  /\ serviceStep = NoServiceStep
  /\ IF Truthy(FunctionRef) THEN loadServices_call ELSE UNCHANGED serviceCalls
  /\ serviceStep' = ServiceStep("effect", "none", FALSE)
  /\ UNCHANGED <<serviceUser, serviceError>>

loadServices_ok(c) ==
  /\ c.op = "load" /\ BagIn(c, serviceCalls)
  /\ serviceCalls' = Remove(serviceCalls, c)
  /\ serviceStep' = ServiceStep("loadServices_ok", "none", FALSE)
  /\ UNCHANGED <<serviceUser, serviceError>>

loadServices_fail(c) ==
  /\ c.op = "load" /\ BagIn(c, serviceCalls)
  /\ serviceCalls' = Remove(serviceCalls, c)
  /\ serviceError' = LoadFailed
  /\ serviceStep' = ServiceStep("loadServices_fail", "none", FALSE)
  /\ UNCHANGED serviceUser

\* handleDeleteService(service); confirmed is the answer to window.confirm
handleDeleteService(id, confirmed) ==
  /\ serviceStep # NoServiceStep
  /\ BagCardinality(serviceCalls) < MaxInflight
  /\ IF ~Truthy(FunctionRef)
       THEN /\ serviceError' = DeleteRefused
            /\ serviceStep' = ServiceStep("handleDeleteService", id, TRUE)
            /\ UNCHANGED serviceCalls
       ELSE /\ serviceStep' = ServiceStep("handleDeleteService", id, FALSE)
            /\ serviceCalls' = IF confirmed
                                 THEN Add(serviceCalls, ServiceCall("delete", id))
                                 ELSE serviceCalls
            /\ UNCHANGED serviceError
  /\ UNCHANGED serviceUser

\* deleteService resolved: setSuccess, then loadServices again
deleteService_ok(c) ==
  /\ c.op = "delete" /\ BagIn(c, serviceCalls)
  /\ serviceCalls' = Add(Remove(serviceCalls, c), ServiceCall("load", "none"))
  /\ serviceStep' = ServiceStep("deleteService_ok", c.id, FALSE)
  /\ UNCHANGED <<serviceUser, serviceError>>

deleteService_fail(c) ==
  /\ c.op = "delete" /\ BagIn(c, serviceCalls)
  /\ serviceCalls' = Remove(serviceCalls, c)
  /\ serviceError' = DeleteFailed
  /\ serviceStep' = ServiceStep("deleteService_fail", c.id, FALSE)
  /\ UNCHANGED serviceUser

\* the 5 s timer of the error effect: setError(null)
serviceError_timeout ==
  /\ serviceError # Null
  /\ serviceError' = Null
  /\ serviceStep' = ServiceStep("error_timeout", "none", FALSE)
  /\ UNCHANGED <<serviceUser, serviceCalls>>

\* ------------------------------------------------ Pembayaran (payments) screen
PaymentStatuses == {Undefined, "completed"}

\* (mutation of Math_ceil_div: the quotient is rounded down)
Math_ceil_div_floor(a, b) == a \div b

\* Math.ceil(a / b) for integers a >= 0, b > 0: the quotient, and one more
\* when the division leaves a fraction
Math_ceil_div(a, b) == IF a % b = 0 THEN a \div b ELSE (a \div b) + 1

\* what GET /payments answers to request r when total payments match and the
\* backend pages them by limit: the number of items on the page, total, limit
PaymentsResponse(r, total, limit) ==
  LET rest == total - (r.page - 1) * limit
  IN [data |-> IF rest <= 0 THEN 0 ELSE IF rest < limit THEN rest ELSE limit,
      total |-> total, limit |-> limit]
PaymentsResponses(r) ==
  { PaymentsResponse(r, total, limit) : total \in 0..MaxTotal, limit \in 1..MaxLimit }

NoResponse == [data |-> 0, total |-> 0, limit |-> 0]
PaymentsStep(handler, resp) == [handler |-> handler, response |-> resp]

\* the mount effect has run: the first fetchPayments() awaits its response
PaymentsInit ==
  /\ pembayaran = [payments |-> 0, loading |-> TRUE, error |-> Null, page |-> 1,
                   totalPages |-> 1, status |-> Undefined]
  /\ paymentFetches = SetToBag({[page |-> 1, status |-> Undefined]})
  /\ paymentsStep = PaymentsStep("mount", NoResponse)

\* fetchPayments up to its await, run by the effect on [page, filters]
fetchPayments_call(p, status) ==
  paymentFetches' = Add(paymentFetches, [page |-> p, status |-> status])

\* handleFilterChange({status}): a new filters object and page 1, so the
\* effect runs fetchPayments again
Pembayaran_handleFilterChange(status) ==
  /\ BagCardinality(paymentFetches) < MaxInflight
  /\ pembayaran' = [pembayaran EXCEPT !.status = status, !.page = 1, !.loading = TRUE]
  /\ fetchPayments_call(1, status)
  /\ paymentsStep' = PaymentsStep("handleFilterChange", NoResponse)

\* handlePageChange(newPage)
Pembayaran_handlePageChange(newPage) ==
  /\ BagCardinality(paymentFetches) < MaxInflight
  /\ IF newPage > 0 /\ newPage <= pembayaran.totalPages
       THEN /\ pembayaran' = [pembayaran EXCEPT !.page = newPage, !.loading = TRUE]
            /\ fetchPayments_call(newPage, pembayaran.status)
       ELSE UNCHANGED <<pembayaran, paymentFetches>>
  /\ paymentsStep' = PaymentsStep("handlePageChange", NoResponse)

\* fetchPayments after getPayments answered
fetchPayments_ok(r, resp) ==
  /\ BagIn(r, paymentFetches)
  /\ pembayaran' = [pembayaran EXCEPT !.payments = resp.data,
                      !.totalPages = Math_ceil_div(resp.total, resp.limit),
                      !.loading = FALSE, !.error = Null]
  /\ paymentFetches' = Remove(paymentFetches, r)
  /\ paymentsStep' = PaymentsStep("fetchPayments_ok", resp)

\* fetchPayments after getPayments threw
fetchPayments_fail(r) ==
  /\ BagIn(r, paymentFetches)
  /\ pembayaran' = [pembayaran EXCEPT !.error = "Failed to fetch payments data",
                                      !.loading = FALSE]
  /\ paymentFetches' = Remove(paymentFetches, r)
  /\ paymentsStep' = PaymentsStep("fetchPayments_fail", NoResponse)

\* --------------------------------------------------------------------- Next
\* a screen that is not mounted holds no state
ListUnmounted ==
  /\ bookings = Null /\ pagination = Null /\ filters = Null /\ loading = Null
  /\ bookingsError = Null /\ requests = Null /\ reqSeq = Null /\ shownSeq = Null

LoginUnmounted ==
  /\ route = Null /\ formData = Null /\ connectionStatus = Null
  /\ loginLoading = Null /\ errors = Null /\ submitted = Null

CustomersUnmounted ==
  /\ customers = Null /\ page = Null /\ totalPages = Null /\ searchTerm = Null
  /\ customersLoading = Null /\ customersError = Null /\ fetches = Null
  /\ fetchSeq = Null /\ deletions = Null /\ deleteCount = Null
  /\ serverCustomers = Null /\ customersStep = Null

ServiceUnmounted ==
  /\ serviceUser = Null /\ serviceError = Null /\ serviceCalls = Null
  /\ serviceStep = Null

PaymentsUnmounted ==
  /\ pembayaran = Null /\ paymentFetches = Null /\ paymentsStep = Null

\* the screens outside the bookings, login and customers ones
OthersUnmounted == ServiceUnmounted /\ PaymentsUnmounted

\* the session alone: no screen is looked at
Init ==
  /\ AuthInit /\ ListUnmounted /\ LoginUnmounted /\ CustomersUnmounted
  /\ tokenCheck = Null /\ permCheck = Null /\ OthersUnmounted

\* the bookings screen is mounted
InitList ==
  /\ AuthInit /\ ListInit /\ LoginUnmounted /\ CustomersUnmounted
  /\ tokenCheck = Null /\ permCheck = Null /\ OthersUnmounted

\* the app has loaded at /login
InitPage ==
  /\ AuthInit /\ LoginInit /\ ListUnmounted /\ CustomersUnmounted
  /\ tokenCheck = Null /\ permCheck = Null /\ OthersUnmounted

\* the customers screen is mounted
InitCustomers ==
  /\ AuthInit /\ CustomersInit /\ ListUnmounted /\ LoginUnmounted
  /\ tokenCheck = Null /\ permCheck = Null /\ OthersUnmounted

\* no isTokenExpired call has been made
InitToken ==
  /\ AuthInit /\ ListUnmounted /\ LoginUnmounted /\ CustomersUnmounted
  /\ tokenCheck = NoCheck /\ permCheck = Null /\ OthersUnmounted

\* the session: any operation may be issued while others await a response
Next ==
  \/ \E newSession \in BOOLEAN : PageLoad(newSession) /\ UNCHANGED offSession
  \/ \E remember \in BOOLEAN : login_call(remember) /\ UNCHANGED offSession
  \/ \E via \in {"ctx", "svc"} : logout_call(via) /\ UNCHANGED offSession
  \/ refreshToken_call /\ UNCHANGED offSession
  \/ refreshUser_call /\ UNCHANGED offSession
  \/ \E c \in BagToSet(calls), resp \in LoginResponses : login_ok(c, resp) /\ UNCHANGED offSession
  \/ \E c \in BagToSet(calls), reason \in FailReasons : login_fail(c, reason) /\ UNCHANGED offSession
  \/ \E c \in BagToSet(calls), out \in {"ok", NetFailure} : logout_done(c, out) /\ UNCHANGED offSession
  \/ \E c \in BagToSet(calls), t \in Tokens : refreshToken_ok(c, t) /\ UNCHANGED offSession
  \/ \E c \in BagToSet(calls), reason \in FailReasons : refreshToken_fail(c, reason) /\ UNCHANGED offSession
  \/ \E c \in BagToSet(calls), u \in Users : getCurrentUser_ok(c, u) /\ UNCHANGED offSession
  \/ \E c \in BagToSet(calls), reason \in FailReasons : getCurrentUser_fail(c, reason) /\ UNCHANGED offSession

Spec == Init /\ [][Next]_vars

\* the session, with callers awaiting each operation before the next one
SerialNext ==
  \/ \E newSession \in BOOLEAN : PageLoad(newSession) /\ UNCHANGED offSession
  \/ \E remember \in BOOLEAN : Inflight = 0 /\ login_call(remember) /\ UNCHANGED offSession
  \/ \E via \in {"ctx", "svc"} : Inflight = 0 /\ logout_call(via) /\ UNCHANGED offSession
  \/ Inflight = 0 /\ refreshToken_call /\ UNCHANGED offSession
  \/ Inflight = 0 /\ refreshUser_call /\ UNCHANGED offSession
  \/ \E c \in BagToSet(calls), resp \in LoginResponses : login_ok(c, resp) /\ UNCHANGED offSession
  \/ \E c \in BagToSet(calls), reason \in FailReasons : login_fail(c, reason) /\ UNCHANGED offSession
  \/ \E c \in BagToSet(calls), out \in {"ok", NetFailure} : logout_done(c, out) /\ UNCHANGED offSession
  \/ \E c \in BagToSet(calls), t \in Tokens : refreshToken_ok(c, t) /\ UNCHANGED offSession
  \/ \E c \in BagToSet(calls), reason \in FailReasons : refreshToken_fail(c, reason) /\ UNCHANGED offSession
  \/ \E c \in BagToSet(calls), u \in Users : getCurrentUser_ok(c, u) /\ UNCHANGED offSession
  \/ \E c \in BagToSet(calls), reason \in FailReasons : getCurrentUser_fail(c, reason) /\ UNCHANGED offSession

SpecSerial == Init /\ [][SerialNext]_vars

\* the bookings list screen
ListNext ==
  \/ \E v \in SearchTerms : setSearch(v) /\ UNCHANGED offList
  \/ \E v \in Statuses : setStatus(v) /\ UNCHANGED offList
  \/ resetFilter /\ UNCHANGED offList
  \/ prevPage /\ UNCHANGED offList
  \/ nextPage /\ UNCHANGED offList
  \/ \E r \in BagToSet(requests) : loadBookings_ok(r) /\ UNCHANGED offList
  \/ \E r \in BagToSet(requests) : loadBookings_fail(r) /\ UNCHANGED offList

SpecList == InitList /\ [][ListNext]_vars

\* the login page and the dashboard's header
PageNext ==
  \/ \E newSession \in BOOLEAN : App_load(newSession) /\ UNCHANGED offPage
  \/ \E c \in BagToSet(calls), u \in Users : App_getCurrentUser_ok(c, u) /\ UNCHANGED offPage
  \/ \E c \in BagToSet(calls), reason \in FailReasons : App_getCurrentUser_fail(c, reason) /\ UNCHANGED offPage
  \/ \E b \in BOOLEAN : checkBackendConnection_done(b) /\ UNCHANGED offPage
  \/ \E v \in FormEmails : handleInputChange("email", v) /\ UNCHANGED offPage
  \/ \E v \in FormPasswords : handleInputChange("password", v) /\ UNCHANGED offPage
  \/ \E v \in BOOLEAN : handleInputChange("remember", v) /\ UNCHANGED offPage
  \/ handleDemoLogin /\ UNCHANGED offPage
  \/ handleSubmit /\ UNCHANGED offPage
  \/ \E c \in BagToSet(calls), resp \in LoginResponses : handleSubmit_login_ok(c, resp) /\ UNCHANGED offPage
  \/ \E c \in BagToSet(calls), reason \in FailReasons : handleSubmit_login_fail(c, reason) /\ UNCHANGED offPage
  \/ handleMockLogin_done /\ UNCHANGED offPage
  \/ Header_handleLogout /\ UNCHANGED offPage
  \/ \E c \in BagToSet(calls), out \in {"ok", NetFailure} : Header_handleLogout_done(c, out) /\ UNCHANGED offPage

SpecPage == InitPage /\ [][PageNext]_vars

\* the customers list screen
CustomersNext ==
  \/ \E v \in SearchTerms : setSearchTerm(v) /\ UNCHANGED offCustomers
  \/ handleSearch /\ UNCHANGED offCustomers
  \/ \E p \in {page - 1, page + 1} : handlePageChange(p) /\ UNCHANGED offCustomers
  \/ \E r \in BagToSet(fetches) : fetchCustomers_ok(r) /\ UNCHANGED offCustomers
  \/ \E r \in BagToSet(fetches) : fetchCustomers_fail(r) /\ UNCHANGED offCustomers
  \/ \E id \in Items : handleDeleteCustomer(id) /\ UNCHANGED offCustomers
  \/ \E d \in BagToSet(deletions) : deleteCustomer_ok(d) /\ UNCHANGED offCustomers
  \/ \E d \in BagToSet(deletions) : deleteCustomer_fail(d) /\ UNCHANGED offCustomers

SpecCustomers == InitCustomers /\ [][CustomersNext]_vars

\* calls of isTokenExpired over every token shape, held token and time
TokenNext ==
  \E t \in TokenShapes, held \in TokenShapes, now \in 0..MaxTime :
    isTokenExpired_call(t, held, now) /\ UNCHANGED offToken

SpecToken == InitToken /\ [][TokenNext]_vars

\* no permission predicate has been evaluated
InitPerm ==
  /\ AuthInit /\ ListUnmounted /\ LoginUnmounted /\ CustomersUnmounted
  /\ tokenCheck = Null /\ permCheck = NoPermCheck /\ OthersUnmounted

\* evaluations of the permission predicates over every user
PermNext ==
  \/ \E fn \in PermissionNames, u \in PermUsers :
       usePermissions_call(fn, u) /\ UNCHANGED offPerm
  \/ \E fn \in RolePredicates, u \in PermUsers :
       AuthService_predicate_call(fn, u) /\ UNCHANGED offPerm

SpecPerm == InitPerm /\ [][PermNext]_vars

\* the service management screen is mounted
InitService ==
  /\ AuthInit /\ ListUnmounted /\ LoginUnmounted /\ CustomersUnmounted
  /\ tokenCheck = Null /\ permCheck = Null /\ ServiceInit /\ PaymentsUnmounted

ServiceNext ==
  \/ ServiceManagement_effect /\ UNCHANGED offService
  \/ \E c \in BagToSet(serviceCalls) : loadServices_ok(c) /\ UNCHANGED offService
  \/ \E c \in BagToSet(serviceCalls) : loadServices_fail(c) /\ UNCHANGED offService
  \/ \E id \in ServiceIds, confirmed \in BOOLEAN :
       handleDeleteService(id, confirmed) /\ UNCHANGED offService
  \/ \E c \in BagToSet(serviceCalls) : deleteService_ok(c) /\ UNCHANGED offService
  \/ \E c \in BagToSet(serviceCalls) : deleteService_fail(c) /\ UNCHANGED offService
  \/ serviceError_timeout /\ UNCHANGED offService

SpecService == InitService /\ [][ServiceNext]_vars

\* the payments screen is mounted
InitPayments ==
  /\ AuthInit /\ ListUnmounted /\ LoginUnmounted /\ CustomersUnmounted
  /\ tokenCheck = Null /\ permCheck = Null /\ ServiceUnmounted /\ PaymentsInit

PaymentsNext ==
  \/ \E status \in PaymentStatuses :
       Pembayaran_handleFilterChange(status) /\ UNCHANGED offPayments
  \/ \E p \in {pembayaran.page - 1, pembayaran.page + 1} :
       Pembayaran_handlePageChange(p) /\ UNCHANGED offPayments
  \/ \E r \in BagToSet(paymentFetches) : \E resp \in PaymentsResponses(r) :
       fetchPayments_ok(r, resp) /\ UNCHANGED offPayments
  \/ \E r \in BagToSet(paymentFetches) : fetchPayments_fail(r) /\ UNCHANGED offPayments

SpecPayments == InitPayments /\ [][PaymentsNext]_vars

TypeOK ==
  /\ authToken \in Tokens \cup {MockToken, Null}
  /\ currentUser \in Users \cup DemoUsers \cup {Null, Undefined}
  /\ user \in Users \cup DemoUsers \cup {Null}
  /\ token \in Tokens \cup {MockToken, Null}
  /\ isLoading \in BOOLEAN
  /\ Inflight <= MaxInflight


\* =========================================================== properties
Present(v) == v \notin {Null, Undefined}

SessionCleared ==
  /\ authToken = Null
  /\ currentUser = Null
  /\ localStorage = EmptyLocal
  /\ sessionStorage = EmptySession

Done(op) == ev.kind = "done" /\ ev.call.op = op

\* the refresh token the backend hands out together with token t
RefreshOf(t) ==
  CHOOSE r \in RefreshTokens :
    \E resp \in LoginResponses : resp.token = t /\ resp.refreshToken = r

\* C1: in every reachable state AuthService.isAuthenticated() and the
\* context's isAuthenticated are true exactly when that component's user
\* and token are both present.
C1_IsAuthenticatedIffUserAndToken ==
  /\ isAuthenticated <=> (Present(currentUser) /\ Present(authToken))
  /\ contextIsAuthenticated <=> (Present(user) /\ Present(token))

\* a login left the service with a token but no user, and it reports
\* itself unauthenticated
C1_Witness ==
  /\ Done("login")
  /\ Present(authToken) /\ ~Present(currentUser)
  /\ ~isAuthenticated /\ ~contextIsAuthenticated

\* C2: whenever logout() completes, whatever the remember flag of the
\* session and whether POST /auth/logout succeeded or failed, it returns
\* without throwing, the in-memory user and token are absent and neither
\* storage holds an authToken, a refreshToken or a user.
C2_LogoutClearsEverything ==
  Done("logout") => (~ev.threw /\ SessionCleared)

\* a direct logout whose server call failed, on a page whose context
\* still shows the session that was logged out
C2_Witness ==
  /\ Done("logout") /\ ev.call.via = "svc" /\ ev.out = NetFailure
  /\ Present(user) /\ Present(token)

\* the step in which AuthService.login returned the backend's data
LoginReturned == ev'.kind = "done" /\ ev'.call.op = "login" /\ ev'.out \in {"ok", "invalid"}

\* C3: a successful login with remember = true persists the returned token
\* and refreshToken to durable storage; with remember = false it persists
\* them to session-scoped storage and leaves the durable pair as it was; in
\* both cases the returned user record is persisted to durable storage.
C3_LoginPersistsByRemember ==
  [][LoginReturned =>
       /\ ev'.call.remember =>
            /\ localStorage'.authToken = authToken'
            /\ localStorage'.refreshToken = RefreshOf(authToken')
       /\ ~ev'.call.remember =>
            /\ sessionStorage'.authToken = authToken'
            /\ sessionStorage'.refreshToken = RefreshOf(authToken')
            /\ localStorage'.authToken = localStorage.authToken
            /\ localStorage'.refreshToken = localStorage.refreshToken
       /\ localStorage'.user = JSON_stringify(currentUser')
       /\ Present(authToken')]_vars

\* a remember = false login has completed while durable storage still
\* holds the token of an earlier remember = true login
C3_Witness ==
  /\ Done("login") /\ ev.out = "ok" /\ ~ev.call.remember
  /\ sessionStorage.authToken = authToken
  /\ Present(localStorage.authToken) /\ localStorage.authToken # authToken
  /\ localStorage.user = JSON_stringify(currentUser)

\* C4: when login fails, the service's in-memory user and token are both
\* absent after the call, from any prior session state.
C4_FailedLoginLeavesSessionCleared ==
  (Done("login") /\ ev.out \in FailReasons) =>
     (~Present(authToken) /\ ~Present(currentUser))

NotTorn ==
  /\ Present(currentUser) <=> Present(authToken)
  /\ Present(localStorage.user) <=>
       (Present(localStorage.authToken) \/ Present(sessionStorage.authToken))

\* nothing that was absent before the step is present after it
NoRepopulate ==
  /\ Present(authToken') => Present(authToken)
  /\ Present(currentUser') => Present(currentUser)
  /\ Present(localStorage'.authToken) => Present(localStorage.authToken)
  /\ Present(localStorage'.refreshToken) => Present(localStorage.refreshToken)
  /\ Present(localStorage'.user) => Present(localStorage.user)
  /\ Present(sessionStorage'.authToken) => Present(sessionStorage.authToken)
  /\ Present(sessionStorage'.refreshToken) => Present(sessionStorage.refreshToken)

\* C5: for every interleaving of login, logout and refresh calls, a
\* response that arrives after a logout has completed does not repopulate
\* the in-memory session or either storage, and once every call has
\* completed a user is present iff a token is, in memory and in storage.
C5_NoTornSessionAfterRace ==
  [][(ev'.kind = "done" /\ ev'.call.stale) =>
       /\ NoRepopulate
       /\ (Inflight' = 0 => NotTorn')]_vars

\* C7: refreshToken() fails with "No refresh token available" when neither
\* storage holds a refresh token, and fails when the exchange is rejected;
\* after either failure it has thrown, the in-memory user and token are
\* absent, both storages are empty and isAuthenticated is false.
C7_FailedRefreshClearsSession ==
  /\ [](Done("refreshToken") /\ ev.out # "ok" =>
          (ev.threw /\ SessionCleared /\ ~isAuthenticated))
  /\ [][(ev'.call.op = "refreshToken" /\ ev'.call.rtFrom = "none") <=>
          (/\ ev'.kind = "done" /\ ev'.call.op = "refreshToken"
           /\ ev'.out = "No refresh token available"
           /\ ~Present(localStorage.refreshToken)
           /\ ~Present(sessionStorage.refreshToken))]_vars

\* the exchange of a stored refresh token was rejected on a page whose
\* context still shows the session
C7_Witness ==
  /\ Done("refreshToken") /\ ev.out = AuthFailure /\ ev.call.rtFrom = "session"
  /\ Present(user) /\ SessionCleared

\* C8: with callers awaiting each operation, a successful refreshToken()
\* reads the refresh token from durable storage if it holds one and
\* otherwise from session-scoped storage, and writes the new token to that
\* same storage and to no other.
C8_RefreshWritesWhereItRead ==
  [][(ev'.kind = "done" /\ ev'.call.op = "refreshToken" /\ ev'.out = "ok") =>
       /\ ev'.call.rtFrom = RefreshSource(localStorage)
       /\ ev'.call.rtFrom = "local" =>
            /\ Present(localStorage.refreshToken)
            /\ localStorage' = [localStorage EXCEPT !.authToken = authToken']
            /\ sessionStorage' = sessionStorage
       /\ ev'.call.rtFrom = "session" =>
            /\ ~Present(localStorage.refreshToken)
            /\ Present(sessionStorage.refreshToken)
            /\ sessionStorage' = [sessionStorage EXCEPT !.authToken = authToken']
            /\ localStorage' = localStorage]_vars

\* a refresh of a remember = false session completed and replaced the
\* session-scoped token
C8_Witness ==
  /\ Done("refreshToken") /\ ev.out = "ok" /\ ev.call.rtFrom = "session"
  /\ sessionStorage.authToken = authToken
  /\ sessionStorage.refreshToken # RefreshOf(authToken)
  /\ ~Present(localStorage.authToken)

InitCall == Call("getCurrentUser", "init", FALSE, "none")

\* C9: at bootstrap, if the store holds a token and a parsable user, the
\* context enters Authenticated with the cached user and token and calls
\* getCurrentUser(); if that call fails with a transient (non-authorization)
\* reason the context stays as it was, still Authenticated with the cached
\* user, and no stored credential is cleared.
C9_BootstrapKeepsCachedSession ==
  /\ [](ev.boot = "restorable" =>
          /\ user = JSON_parse(localStorage.user)
          /\ token = OrElse(localStorage.authToken, sessionStorage.authToken)
          /\ contextIsAuthenticated
          /\ calls = SetToBag({InitCall}))
  /\ [][(/\ ev'.kind = "done" /\ ev'.call.op = "getCurrentUser"
         /\ ev'.call.via = "init" /\ ev'.out = NetFailure) =>
          /\ user' = user /\ token' = token
          /\ (contextIsAuthenticated => contextIsAuthenticated')
          /\ UNCHANGED svcVars]_vars

\* the bootstrap refresh failed with a network error and the context is
\* still authenticated with the stored user
C9_Witness ==
  /\ Done("getCurrentUser") /\ ev.call.via = "init" /\ ev.out = NetFailure
  /\ contextIsAuthenticated
  /\ user = JSON_parse(localStorage.user)
  /\ Present(localStorage.authToken)

\* C10: at bootstrap, if the store is empty or its stored user is
\* unparsable JSON, the session ends Unauthenticated in the service and in
\* the context, and afterwards neither storage holds a token, a refresh
\* token or a user.
C10_CorruptStoreIsCleared ==
  ev.boot \in {"empty", "corrupt"} =>
    /\ SessionCleared
    /\ ~Present(user) /\ ~Present(token)
    /\ ~isAuthenticated /\ ~contextIsAuthenticated


\* C6: on a list screen, the response of an earlier request never
\* overwrites the result of a later one: the displayed list never goes back
\* from a later request's response to an earlier request's.
C6_StaleResponseDiscarded ==
  [][shownSeq' >= shownSeq]_vars

RefreshUserFailed(out) ==
  /\ ev.kind = "done" /\ ev.call.op = "getCurrentUser" /\ ev.call.via = "ctx"
  /\ ev.out = out

\* C12: with callers awaiting each operation, when refreshUser() fails with
\* an authorization reason the context is inside logout(), and the next
\* thing that happens on the page is that logout completing with the context
\* unauthenticated and memory and both storages cleared; when refreshUser()
\* fails for any other reason it throws, records the reason as error and
\* leaves the context's user and token, the service's user and token and
\* both storages as they were.
C12_RefreshUserAuthFailureLogsOut ==
  /\ [](RefreshUserFailed(AuthFailure) =>
          /\ calls = SetToBag({Call("logout", "ctx", FALSE, "none")})
          /\ isLoading)
  /\ [][RefreshUserFailed(AuthFailure) =>
          \/ ev'.boot # "none"
          \/ /\ ev'.kind = "done" /\ ev'.call.op = "logout" /\ ev'.call.via = "ctx"
             /\ SessionCleared'
             /\ ~Present(user') /\ ~Present(token') /\ ~contextIsAuthenticated'
             /\ ~isLoading']_vars
  /\ [][(/\ ev'.kind = "done" /\ ev'.call.op = "getCurrentUser" /\ ev'.call.via = "ctx"
         /\ ev'.out \notin {"ok", AuthFailure}) =>
          /\ ev'.threw
          /\ error' = ev'.out
          /\ UNCHANGED <<svcVars, user, token, isLoading>>
          /\ calls' = IF ev'.out = "Not authenticated" THEN calls
                                                      ELSE Remove(calls, ev'.call)]_vars

\* refreshUser() was answered 401 while the session was authenticated in
\* the service and in the context; the logout it started awaits the server
C12_Witness ==
  /\ RefreshUserFailed(AuthFailure)
  /\ isAuthenticated /\ contextIsAuthenticated
  /\ Present(localStorage.user)
  /\ BagIn(Call("logout", "ctx", FALSE, "none"), calls)

\* the operations of the Session Manager (AuthService, and AuthProvider
\* which calls it), as the step log names them
SessionManagerOps == {"initializeAuth", "login", "logout", "refreshToken", "getCurrentUser"}

\* C13: no step of a component other than the Session Manager writes a
\* token, a refresh token or a user to either storage: every step that
\* changes localStorage or sessionStorage is a Session Manager operation
\* (or the browser starting a new session).
C13_OnlySessionManagerWritesStore ==
  [][(localStorage' # localStorage \/ sessionStorage' # sessionStorage) =>
       ev'.call.op \in SessionManagerOps]_vars

\* C14: on a list screen, every step that changes a filter value leaves
\* page at 1.
C14_FilterChangeResetsPage ==
  [][filters' # filters => pagination'.page = 1]_vars

\* C15: in every reachable state of a list screen in which totalPages > 0,
\* 1 <= page <= totalPages.
C15_PageWithinTotalPages ==
  pagination.totalPages > 0 =>
    (1 <= pagination.page /\ pagination.page <= pagination.totalPages)

\* C16: on a list screen, a step that changes a filter or submits a search
\* issues exactly one fetch, and that fetch carries the search term and the
\* page the screen holds after the step.
C16_FilterChangeFetchesOnce ==
  [][customersStep'.handler \in {"setSearchTerm", "handleSearch"} =>
       /\ fetchSeq' = fetchSeq + 1
       /\ \A r \in BagToSet(fetches') :
            r.seq > fetchSeq => (r.page = page' /\ r.search = searchTerm')]_vars

\* C17: when the server delete of an item succeeds (no other delete being
\* in flight), the in-memory list loses exactly the items with the deleted
\* id and keeps every other item,
\* page, totalPages and the search term stay as they were, and no list
\* fetch is issued.
C17_DeleteRemovesOnlyThatItem ==
  [][(customersStep'.handler = "deleteCustomer_ok" /\ BagCardinality(deletions) = 1) =>
       /\ customers' = Without(customers, customersStep'.id)
       /\ UNCHANGED <<page, totalPages, searchTerm>>
       /\ fetchSeq' = fetchSeq /\ fetches' = fetches]_vars

\* the step in which a getBookings request ended without its response being
\* displayed: the request failed
FetchFailed ==
  /\ BagCardinality(requests') < BagCardinality(requests)
  /\ shownSeq' = shownSeq

\* C18: a failed list fetch leaves the displayed list, page, total,
\* totalPages and filters as they were, records the error message and
\* leaves the screen not loading.
C18_FailedFetchKeepsList ==
  [][FetchFailed =>
       /\ bookings' = bookings
       /\ pagination' = pagination
       /\ filters' = filters
       /\ bookingsError' = NetFailure
       /\ ~loading']_vars

\* a fetch failed while the screen showed a loaded, non-empty second page
C18_Witness ==
  /\ bookingsError = NetFailure /\ ~loading
  /\ requests = EmptyBag
  /\ Len(bookings) > 0 /\ pagination.page = 2 /\ pagination.totalPages > 1
  /\ shownSeq < reqSeq

\* C19: isTokenExpired returns true when no token is given and none is
\* held, when the token's payload cannot be decoded or carries no usable
\* exp claim, and when exp is earlier than the current time; it returns
\* false only for a token with a numeric exp later than the current time.
C19_IsTokenExpired ==
  tokenCheck.kind = "checked" =>
    LET t == tokenToCheck(tokenCheck.token, tokenCheck.held)
    IN /\ (\/ t.kind = "absent"
           \/ t.kind \in TokenKinds \ {"expNumber"}
           \/ (t.kind = "expNumber" /\ t.exp < tokenCheck.now)) => tokenCheck.result
       /\ ~tokenCheck.result => (t.kind = "expNumber" /\ t.exp > tokenCheck.now)

\* the step is a call of getCurrentUser() (through refreshUser): it either
\* sends GET /auth/me or fails at once
GetCurrentUserCalled ==
  /\ ev'.call.op = "getCurrentUser" /\ ev'.call.via = "ctx"
  /\ ev'.kind = "issue" \/ ev'.out = "Not authenticated"

\* the step is the completion of a getCurrentUser() whose request was sent
GetCurrentUserAnswered ==
  /\ ev'.kind = "done" /\ ev'.call.op = "getCurrentUser"
  /\ ev'.out # "Not authenticated"

\* C20: getCurrentUser() called with no token fails with "Not
\* authenticated" and changes nothing in the service or the storages; when
\* the backend answers, the in-memory user and the stored user are both
\* replaced by the returned record and the token and the stored tokens stay
\* as they were; when the backend call fails, the in-memory user and token
\* and both storages are unchanged.
C20_GetCurrentUser ==
  /\ [][GetCurrentUserCalled =>
          /\ ~Present(authToken) => ev'.out = "Not authenticated"
          /\ ev'.out = "Not authenticated" => (ev'.threw /\ ev'.kind = "done")
          /\ UNCHANGED svcVars]_vars
  /\ [][(GetCurrentUserAnswered /\ ev'.out = "ok") =>
          /\ currentUser' \in Users
          /\ localStorage' = [localStorage EXCEPT !.user = JSON_stringify(currentUser')]
          /\ JSON_parse(localStorage'.user) = currentUser'
          /\ UNCHANGED <<authToken, sessionStorage>>]_vars
  /\ [][(GetCurrentUserAnswered /\ ev'.out # "ok") =>
          UNCHANGED svcVars]_vars

\* refreshUser() brought back a record that differs from the one the login
\* returned: memory and durable storage hold the new record, the token is
\* the login's
C20_Witness ==
  /\ Done("getCurrentUser") /\ ev.call.via = "ctx" /\ ev.out = "ok"
  /\ authToken = "t1" /\ currentUser = "u2"
  /\ localStorage.user = JSON_stringify("u2")
  /\ localStorage.authToken = "t1"

\* the user of the last evaluation with its non-role attribute changed
OtherAttributes(u) == IF u = NoUser THEN u ELSE [u EXCEPT !.isActive = ~@]

EntersDemoLogin == submitted.stage # "mock" /\ submitted'.stage = "mock"

\* C23: on the login page the demo login starts only after the real login of
\* the same submit has failed, and only when the health check has reported the
\* backend unreachable; a submit made while the check is pending or the backend
\* reachable never reaches the demo login.
C23_DemoOnlyAfterReportedUnreachable ==
  [][EntersDemoLogin =>
       /\ submitted.stage = "login"
       /\ ev'.call.op = "login" /\ ev'.threw
       /\ ~connectionStatus.checking
       /\ ~connectionStatus.isConnected]_vars

\* the real login of a submit of the documented demo credentials fails while
\* the health check has reported the backend offline
DocumentedDemoSubmitFails ==
  /\ submitted.stage = "login"
  /\ submitted.form.email = "admin@example.com"
  /\ submitted.form.password = "password"
  /\ ~connectionStatus.checking /\ ~connectionStatus.isConnected
  /\ ~submitted.isConnected
  /\ ev'.call.op = "login" /\ ev'.threw

\* C24: in demo mode (backend offline) a submit of the documented demo
\* credentials, admin@example.com with password "password", is accepted by the
\* demo login: it proceeds to the demo session and shows no
\* invalid-credentials error.
C24_DocumentedDemoCredentialsAccepted ==
  [][DocumentedDemoSubmitFails =>
       /\ submitted'.stage = "mock"
       /\ errors'.general = Null]_vars

\* C25: on the service management screen a delete asked for by a user who is
\* not ADMIN is refused with "Only administrators can delete services" and no
\* delete call is sent; a user without canManageServices (STYLIST, CUSTOMER,
\* nobody) gets the access-denied view and no service list is requested.
C25_ServiceScreenGatedByRole ==
  /\ ~isAdmin(serviceUser) =>
       /\ \A c \in BagToSet(serviceCalls) : c.op # "delete"
       /\ serviceStep.handler = "handleDeleteService" =>
            serviceStep.refused /\ serviceError = DeleteRefused
  /\ ~canManageServices(serviceUser) =>
       /\ AccessDenied
       /\ \A c \in BagToSet(serviceCalls) : c.op # "load"

\* C26: whenever every login, logout and refresh issued so far has completed,
\* whichever entry point issued it, the auth context and AuthService agree on
\* whether the session is authenticated and on the user and token it holds.
C26_ContextAgreesWithService ==
  (Inflight = 0 /\ ~isLoading) =>
    /\ contextIsAuthenticated = isAuthenticated
    /\ user = currentUser
    /\ token = authToken

\* C27: a bootstrap that follows a successful login and restores a session
\* from the storages restores the token of that (most recent) login, never
\* the token an earlier login left in localStorage.
C27_BootstrapRestoresLatestLogin ==
  [][(/\ ev.kind = "done" /\ ev.call.op = "login" /\ ev.out = "ok"
      /\ ev'.boot # "none"
      /\ authToken' # Null)
       => authToken' = authToken]_vars

\* C28: when a submit has completed through the demo fallback without an
\* error, the auth context is authenticated (user and token present) and the
\* dashboard route it navigated to is shown, not /login.
C28_DemoLoginAuthenticatesContext ==
  (ev.kind = "done" /\ ev.call.op = "handleMockLogin") =>
    /\ contextIsAuthenticated
    /\ Present(user) /\ Present(token)
    /\ route = "/dashboard"

\* C29: once the deletes that were in flight together have all succeeded, the
\* customers list reflects every one of them: no customer whose delete
\* succeeded is shown again.
C29_ConcurrentDeletesBothReflected ==
  (customersStep.handler = "deleteCustomer_ok" /\ deletions = EmptyBag) =>
    \A k \in DOMAIN customers : customers[k] \in serverCustomers

\* C30: for every user (and for nobody) authService's isAdmin, isManager,
\* isStylist and isCustomer return what the same-named predicate of
\* usePermissions returns for that user.
C30_ServicePredicatesMatchPermissions ==
  (permCheck.by = "authService" /\ permCheck.fn \in RolePredicates) =>
    permCheck.result = usePermissions(permCheck.fn, permCheck.user)

====
